---- MODULE Spec2Model ----
(***************************************************************************)
(* Model of HubProjectAuraSync/script.py: bundle_files(start_path,         *)
(* output_file) and the __main__ block.                                    *)
(*                                                                         *)
(* Text is a sequence of tokens, each token standing for a fixed string:   *)
(*   "x"          a run of ordinary characters (no newline, no dash)       *)
(*   LF, CR       the newline and carriage-return characters               *)
(*   HDR          the text "--- h ---" (a line that looks like a header)   *)
(*   PRE, SUF     the literals "--- " and " ---" of the header f-string    *)
(*   SEP          the path separator                                       *)
(* Paths are sequences of path components.                                 *)
(***************************************************************************)
EXTENDS Integers, Sequences, FiniteSets, TLC

LF  == "\n"
CR  == "\r"
PRE == "--- "
SUF == " ---"
HDR == "--- h ---"
SEP == "/"

\* Bounds of the model.
MaxLen  == 2      \* longest file content, in tokens
MaxRuns == 2      \* invocations of the program in one behaviour
BufSize == 4      \* pending tokens at which the output buffer is flushed

Alphabet == {"x", LF, CR, HDR}

\* All sequences over S of length at most n.
SeqsUpTo(S, n) == UNION {[1..k -> S] : k \in 0..n}

\* All orderings of a finite set (the order scandir may list a directory in).
Orderings(S) ==
    {s \in [1..Cardinality(S) -> S] : \A i, j \in 1..Cardinality(S) : s[i] = s[j] => i = j}

\* The values the __main__ block hard-codes.
source_directory == <<"src">>
output_filename  == <<"Code_Bundle.txt">>

\* An output path beneath the source directory (for direct callers).
InsideOutput == <<"src", "Code_Bundle.txt">>

\* The files a source tree may hold.
Candidates == {<<"src", "a.txt">>, <<"src", "sub", "b.txt">>}

\* A file is readable text, opens but does not decode as UTF-8, or cannot be opened.
FileStates ==
    {[kind |-> "text", data |-> d] : d \in SeqsUpTo(Alphabet, MaxLen)}
      \cup {[kind |-> "binary", data |-> <<>>], [kind |-> "noperm", data |-> <<>>]}

\* What a previous run may have left at the output path.
Stale == [kind |-> "text", data |-> <<PRE, "old", SUF, LF, "x", LF, LF>>]

VARIABLES
    entry,          \* "main": run as a script; "direct": bundle_files called by an importer
    srcIsDir,       \* the source directory exists
    start_path,     \* argument of bundle_files
    output_file,    \* argument of bundle_files
    fs,             \* the files on disk: path -> [kind, data]
    fs0,            \* history: the files on disk when this invocation started
    pc,             \* position in the program
    outOpen,        \* the handles open on the output file
    out,            \* everything written through outfile so far
    stack,          \* os.walk: directories still to list
    dirpath,        \* os.walk: directory being processed
    filenames,      \* os.walk: file names of dirpath not yet processed
    filepath,       \* the file being processed
    inOpen,         \* the input handles open
    content,        \* what infile.read() returned for the file being processed
    console,        \* the lines printed
    log,            \* history: outcome of every file whose processing ended, in order
    runs            \* history: the result of every earlier invocation

vars == <<entry, srcIsDir, start_path, output_file, fs, fs0, pc, outOpen, out, stack,
          dirpath, filenames, filepath, inOpen, content, console, log, runs>>

NoPath == <<>>

----------------------------------------------------------------------------
\* Pure helpers

Last(s) == s[Len(s)]

\* os.path.join(dirpath, filename)
PathJoin(d, name) == Append(d, name)

\* os.path.relpath(filepath, start_path), for a filepath beneath start_path
RelPath(p, start) == SubSeq(p, Len(start) + 1, Len(p))

\* The text of a relative path: its components joined by the separator.
RECURSIVE PathText(_)
PathText(rel) ==
    IF Len(rel) = 0 THEN <<>>
    ELSE IF Len(rel) = 1 THEN <<rel[1]>>
    ELSE <<rel[1], SEP>> \o PathText(Tail(rel))

\* f"--- {relative_filepath} ---\n" without the newline
HeaderLine(rel) == <<PRE>> \o PathText(rel) \o <<SUF>>

\* Mutant of Header: the newline that ends the header line is forgotten.
HeaderNoNewline(rel) == HeaderLine(rel)

\* f"--- {relative_filepath} ---\n"
Header(rel) == HeaderLine(rel) \o <<LF>>

\* Mutant of Separator: a single newline is written after the content.
SeparatorSingle == <<LF>>

\* "\n\n"
Separator == <<LF, LF>>

\* infile.read() in text mode with the default newline=None: "\r\n" and "\r"
\* are both translated to "\n".
RECURSIVE Decode(_)
Decode(d) ==
    IF d = <<>> THEN <<>>
    ELSE IF d[1] = CR
         THEN IF Len(d) >= 2 /\ d[2] = LF
              THEN <<LF>> \o Decode(SubSeq(d, 3, Len(d)))
              ELSE <<LF>> \o Decode(Tail(d))
         ELSE <<d[1]>> \o Decode(Tail(d))

\* os.path.isdir
IsDir(d) == srcIsDir /\ d \in {source_directory, source_directory \o <<"sub">>}

\* The sub-directories of a directory.
SubDirs(d) == IF d = source_directory THEN <<source_directory \o <<"sub">>>> ELSE <<>>

\* The names of the files in a directory right now.
FilesIn(d) == {Last(p) : p \in {q \in DOMAIN fs : Len(q) = Len(d) + 1 /\ SubSeq(q, 1, Len(d)) = d}}

----------------------------------------------------------------------------
\* Initial states

Trees == UNION {[F -> FileStates] : F \in SUBSET Candidates}

Init ==
    /\ entry \in {"main", "direct"}
    /\ srcIsDir \in BOOLEAN
    /\ start_path = source_directory
    /\ output_file \in (IF entry = "main" THEN {output_filename}
                                          ELSE {output_filename, InsideOutput})
    /\ \E tree \in Trees, stale \in BOOLEAN :
          /\ ~srcIsDir => (tree = <<>> /\ (output_file = InsideOutput => ~stale))
          /\ fs = IF stale
                     THEN [p \in DOMAIN tree \cup {output_file} |->
                              IF p = output_file THEN Stale ELSE tree[p]]
                     ELSE tree
    /\ fs0 = fs
    /\ pc = "main"
    /\ outOpen = 0
    /\ out = <<>>
    /\ stack = <<>>
    /\ dirpath = NoPath
    /\ filenames = <<>>
    /\ filepath = NoPath
    /\ inOpen = {}
    /\ content = <<>>
    /\ console = <<>>
    /\ log = <<>>
    /\ runs = <<>>

----------------------------------------------------------------------------
\* The output stream

\* What is on disk at the output path after `written` has gone through
\* outfile: the buffer is handed to the file once BufSize tokens are pending.
Flushed(written) ==
    IF Len(written) - Len(fs[output_file].data) >= BufSize
    THEN written
    ELSE fs[output_file].data

\* outfile.write(s)
Write(s) ==
    /\ out' = out \o s
    /\ fs' = [fs EXCEPT ![output_file].data = Flushed(out \o s)]

\* Leaving the `with open(output_file, 'w')` block: flush and close.
CloseOutput ==
    /\ fs' = [fs EXCEPT ![output_file].data = out]
    /\ outOpen' = outOpen - 1

SkipLine(p)  == [kind |-> "skip", path |-> p]
SuccessLine  == [kind |-> "success", path |-> source_directory \o output_filename]
ErrorLine    == [kind |-> "error", path |-> source_directory]

----------------------------------------------------------------------------
\* The __main__ block

\* Mutant of MainCall: bundle_files is called without the isdir check.
MainCallUnchecked ==
    /\ pc = "main" /\ entry = "main"
    /\ pc' = "call"
    /\ UNCHANGED <<entry, srcIsDir, fs0, start_path, output_file, fs, outOpen, out, stack,
                   dirpath, filenames, filepath, inOpen, content, console, log, runs>>

\* if os.path.isdir(source_directory): bundle_files(source_directory, output_filename)
MainCall ==
    /\ pc = "main" /\ entry = "main"
    /\ IsDir(source_directory)
    /\ pc' = "call"
    /\ UNCHANGED <<entry, srcIsDir, fs0, start_path, output_file, fs, outOpen, out, stack,
                   dirpath, filenames, filepath, inOpen, content, console, log, runs>>

\* else: print(f"Error: The directory '{source_directory}' does not exist.")
MainError ==
    /\ pc = "main" /\ entry = "main"
    /\ ~IsDir(source_directory)
    /\ console' = Append(console, ErrorLine)
    /\ pc' = "exit"
    /\ UNCHANGED <<entry, srcIsDir, fs0, start_path, output_file, fs, outOpen, out, stack,
                   dirpath, filenames, filepath, inOpen, content, log, runs>>

\* print(f"All files from '{source_directory}' have been bundled into ...")
MainSuccess ==
    /\ pc = "returned" /\ entry = "main"
    /\ console' = Append(console, SuccessLine)
    /\ pc' = "exit"
    /\ UNCHANGED <<entry, srcIsDir, fs0, start_path, output_file, fs, outOpen, out, stack,
                   dirpath, filenames, filepath, inOpen, content, log, runs>>

\* An importer calls bundle_files(start_path, output_file) itself: no check precedes it.
DirectCall ==
    /\ pc = "main" /\ entry = "direct"
    /\ pc' = "call"
    /\ UNCHANGED <<entry, srcIsDir, fs0, start_path, output_file, fs, outOpen, out, stack,
                   dirpath, filenames, filepath, inOpen, content, console, log, runs>>

----------------------------------------------------------------------------
\* bundle_files

\* The directory the output file lives in exists (the working directory always does).
OutputDirExists == Len(output_file) = 1 \/ IsDir(SubSeq(output_file, 1, Len(output_file) - 1))

\* with open(output_file, 'w', encoding='utf-8') as outfile: creates or truncates
\* the file, then os.walk(start_path) is set up (nothing is listed yet).
OpenOutput ==
    /\ pc = "call"
    /\ OutputDirExists
    /\ fs' = [p \in DOMAIN fs \cup {output_file} |->
                 IF p = output_file THEN [kind |-> "text", data |-> <<>>] ELSE fs[p]]
    /\ outOpen' = outOpen + 1
    /\ out' = <<>>
    /\ stack' = <<start_path>>
    /\ filenames' = <<>>
    /\ pc' = "loop"
    /\ UNCHANGED <<entry, srcIsDir, fs0, start_path, output_file, dirpath, filepath,
                   inOpen, content, console, log, runs>>

\* open(output_file, 'w') raises FileNotFoundError: bundle_files exits by the exception.
OpenOutputFail ==
    /\ pc = "call"
    /\ ~OutputDirExists
    /\ pc' = "raised"
    /\ UNCHANGED <<entry, srcIsDir, fs0, start_path, output_file, fs, outOpen, out, stack,
                   dirpath, filenames, filepath, inOpen, content, console, log, runs>>

\* for dirpath, _, filenames in os.walk(start_path): the next directory is listed
\* (scandir, in whatever order the system gives) and its sub-directories are queued.
\* A directory that cannot be listed is passed over silently (onerror=None).
Walk ==
    /\ pc = "loop" /\ filenames = <<>> /\ stack # <<>>
    /\ IF IsDir(Head(stack))
       THEN /\ \E order \in Orderings(FilesIn(Head(stack))) : filenames' = order
            /\ dirpath' = Head(stack)
            /\ stack' = SubDirs(Head(stack)) \o Tail(stack)
       ELSE /\ stack' = Tail(stack)
            /\ UNCHANGED <<dirpath, filenames>>
    /\ UNCHANGED <<entry, srcIsDir, fs0, start_path, output_file, fs, pc, outOpen, out,
                   filepath, inOpen, content, console, log, runs>>

\* The file the loop body is about to process.
NextFile == PathJoin(dirpath, Head(filenames))

\* with open(filepath, 'r', encoding='utf-8') as infile: the open succeeds.
OpenInput ==
    /\ pc = "loop" /\ filenames # <<>>
    /\ fs[NextFile].kind # "noperm"
    /\ filepath' = NextFile
    /\ filenames' = Tail(filenames)
    /\ inOpen' = inOpen \cup {NextFile}
    /\ pc' = "header"
    /\ UNCHANGED <<entry, srcIsDir, fs0, start_path, output_file, fs, outOpen, out, stack,
                   dirpath, content, console, log, runs>>

\* The open raises; except Exception prints the skip line and the loop goes on.
OpenInputFail ==
    /\ pc = "loop" /\ filenames # <<>>
    /\ fs[NextFile].kind = "noperm"
    /\ filepath' = NextFile
    /\ filenames' = Tail(filenames)
    /\ console' = Append(console, SkipLine(NextFile))
    /\ log' = Append(log, [path |-> NextFile, ok |-> FALSE, opened |-> FALSE,
                           text |-> <<>>, from |-> Len(out) + 1, to |-> Len(out)])
    /\ UNCHANGED <<entry, srcIsDir, fs0, start_path, output_file, fs, pc, outOpen, out, stack,
                   dirpath, inOpen, content, runs>>

\* outfile.write(f"--- {relative_filepath} ---\n")
WriteHeader ==
    /\ pc = "header"
    /\ Write(Header(RelPath(filepath, start_path)))
    /\ pc' = "read"
    /\ UNCHANGED <<entry, srcIsDir, fs0, start_path, output_file, outOpen, stack, dirpath,
                   filenames, filepath, inOpen, content, console, log, runs>>

\* outfile.write(infile.read()): the file decodes.
ReadWrite ==
    /\ pc = "read"
    /\ fs[filepath].kind = "text"
    /\ content' = Decode(fs[filepath].data)
    /\ Write(Decode(fs[filepath].data))
    /\ pc' = "sep"
    /\ UNCHANGED <<entry, srcIsDir, fs0, start_path, output_file, outOpen, stack, dirpath,
                   filenames, filepath, inOpen, console, log, runs>>

\* Mutant of ReadFail: the handler runs but infile is left open.
ReadFailLeak ==
    /\ pc = "read"
    /\ fs[filepath].kind = "binary"
    /\ console' = Append(console, SkipLine(filepath))
    /\ log' = Append(log, [path |-> filepath, ok |-> FALSE, opened |-> TRUE,
                           text |-> <<>>,
                           from |-> Len(out) - Len(Header(RelPath(filepath, start_path))) + 1,
                           to |-> Len(out)])
    /\ pc' = "loop"
    /\ UNCHANGED <<entry, srcIsDir, fs0, start_path, output_file, fs, outOpen, out, stack,
                   dirpath, filenames, filepath, inOpen, content, runs>>

\* infile.read() raises UnicodeDecodeError: the with block closes infile, except
\* Exception prints the skip line and the loop goes on.
ReadFail ==
    /\ pc = "read"
    /\ fs[filepath].kind = "binary"
    /\ inOpen' = inOpen \ {filepath}
    /\ console' = Append(console, SkipLine(filepath))
    /\ log' = Append(log, [path |-> filepath, ok |-> FALSE, opened |-> TRUE,
                           text |-> <<>>,
                           from |-> Len(out) - Len(Header(RelPath(filepath, start_path))) + 1,
                           to |-> Len(out)])
    /\ pc' = "loop"
    /\ UNCHANGED <<entry, srcIsDir, fs0, start_path, output_file, fs, outOpen, out, stack,
                   dirpath, filenames, filepath, content, runs>>

\* outfile.write("\n\n"), and the `with open(filepath)` block ends: infile is closed.
WriteSeparator ==
    /\ pc = "sep"
    /\ Write(Separator)
    /\ inOpen' = inOpen \ {filepath}
    /\ log' = Append(log, [path |-> filepath, ok |-> TRUE, opened |-> TRUE,
                           text |-> content,
                           from |-> Len(out) - Len(content)
                                      - Len(Header(RelPath(filepath, start_path))) + 1,
                           to |-> Len(out) + Len(Separator)])
    /\ pc' = "loop"
    /\ UNCHANGED <<entry, srcIsDir, fs0, start_path, output_file, outOpen, stack, dirpath,
                   filenames, filepath, content, console, runs>>

\* os.walk is exhausted: the `with open(output_file)` block ends and bundle_files returns.
Return ==
    /\ pc = "loop" /\ filenames = <<>> /\ stack = <<>>
    /\ CloseOutput
    /\ pc' = "returned"
    /\ UNCHANGED <<entry, srcIsDir, fs0, start_path, output_file, out, stack, dirpath,
                   filenames, filepath, inOpen, content, console, log, runs>>

\* An exception that `except Exception` does not catch (KeyboardInterrupt) arrives
\* while bundle_files runs: both with blocks are left, closing what they opened.
Interrupt ==
    /\ pc \in {"loop", "header", "read", "sep"}
    /\ CloseOutput
    /\ inOpen' = {}
    /\ pc' = "raised"
    /\ UNCHANGED <<entry, srcIsDir, fs0, start_path, output_file, out, stack, dirpath,
                   filenames, filepath, content, console, log, runs>>

\* The invocation is over.
Finished == pc = "exit" \/ (pc = "returned" /\ entry = "direct")

\* What is at the output path (NoFile when nothing is).
NoFile == <<"<no file>">>
Bundle == IF output_file \in DOMAIN fs THEN fs[output_file].data ELSE NoFile

\* The program is invoked again, on the tree and output path as they now are.
Rerun ==
    /\ Finished
    /\ Len(runs) + 1 < MaxRuns
    /\ runs' = Append(runs, [bundle |-> Bundle, log |-> log, console |-> console])
    /\ pc' = "main"
    /\ out' = <<>>
    /\ stack' = <<>>
    /\ dirpath' = NoPath
    /\ filenames' = <<>>
    /\ filepath' = NoPath
    /\ content' = <<>>
    /\ console' = <<>>
    /\ log' = <<>>
    /\ fs0' = fs
    /\ UNCHANGED <<entry, srcIsDir, start_path, output_file, fs, outOpen, inOpen>>

----------------------------------------------------------------------------
\* Specifications

\* One invocation.
Next ==
    \/ MainCall \/ MainError \/ MainSuccess \/ DirectCall
    \/ OpenOutput \/ OpenOutputFail \/ Walk
    \/ OpenInput \/ OpenInputFail \/ WriteHeader \/ ReadWrite \/ ReadFail
    \/ WriteSeparator \/ Return \/ Interrupt

Spec == Init /\ [][Next]_vars

\* Invocations one after another.
NextAgain == Next \/ Rerun

SpecAgain == Init /\ [][NextAgain]_vars

----------------------------------------------------------------------------
\* Reading a bundle back: the text is split on the lines that begin with "--- "
\* and end with " ---"; the body of a record runs from the end of its header
\* line to the next such line (or the end of the text), less the two-newline
\* separator that closes it.

BeginsHeader(tok) == tok \in {PRE, HDR}
EndsHeader(tok)   == tok \in {SUF, HDR}

\* The index of the newline that ends the line starting at i (Len + 1 if none).
LineEnd(text, i) ==
    IF \E j \in i..Len(text) : text[j] = LF
    THEN CHOOSE j \in i..Len(text) : text[j] = LF /\ \A k \in i..(j - 1) : text[k] # LF
    ELSE Len(text) + 1

\* A line that begins with "--- " and ends with " ---" starts at i.
IsHeaderAt(text, i) ==
    /\ i \in 1..Len(text)
    /\ i = 1 \/ text[i - 1] = LF
    /\ text[i] # LF
    /\ BeginsHeader(text[i])
    /\ EndsHeader(text[LineEnd(text, i) - 1])

HeaderStarts(text) == {i \in 1..Len(text) : IsHeaderAt(text, i)}

\* Some line of the text looks like a header line.
HasHeaderLine(text) == HeaderStarts(text) # {}

\* Where the record whose header starts at h stops.
RecordStop(text, h) ==
    IF \E k \in HeaderStarts(text) : k > h
    THEN (CHOOSE k \in HeaderStarts(text) : k > h /\ \A m \in HeaderStarts(text) : m > h => k <= m) - 1
    ELSE Len(text)

StripSeparator(body) ==
    IF Len(body) >= 2 /\ body[Len(body)] = LF /\ body[Len(body) - 1] = LF
    THEN SubSeq(body, 1, Len(body) - 2)
    ELSE body

\* The record read back from the header line that starts at h.
RecordAt(text, h) ==
    [header  |-> SubSeq(text, h, LineEnd(text, h) - 1),
     content |-> StripSeparator(SubSeq(text, LineEnd(text, h) + 1, RecordStop(text, h)))]

\* The records of a bundle, by the position of their header.
ParsedAt(text) == [h \in HeaderStarts(text) |-> RecordAt(text, h)]

ParsedSet(text) == {RecordAt(text, h) : h \in HeaderStarts(text)}

\* How many records of the bundle equal r.
Copies(text, r) == Cardinality({h \in HeaderStarts(text) : RecordAt(text, h) = r})

\* The record a file with relative path rel and content c should read back as.
RecordOf(rel, c) == [header |-> HeaderLine(rel), content |-> c]

----------------------------------------------------------------------------
\* Notions the properties share

\* The files beneath start_path when the invocation started.
TreeFiles == {p \in DOMAIN fs0 : Len(p) > Len(start_path) /\ SubSeq(p, 1, Len(start_path)) = start_path}

\* bundle_files ran to its end.
Completed == pc \in {"returned", "exit"} /\ (entry = "main" => IsDir(source_directory))

\* No file is half processed.
BetweenFiles == pc \in {"loop", "returned", "exit"}

LogIndex == 1..Len(log)

\* What the output holds for the i-th file processed.
Chunk(i) == SubSeq(out, log[i].from, log[i].to)

\* The content the i-th file processed had when it was read (the output file
\* itself has, as content, what had reached the disk by then).
OriginalContent(i) ==
    IF log[i].path = output_file THEN log[i].text ELSE fs0[log[i].path].data

\* The number of empty lines that end a text whose last character is a newline.
RECURSIVE TrailingNewlines(_)
TrailingNewlines(text) ==
    IF text = <<>> \/ text[Len(text)] # LF THEN 0
    ELSE 1 + TrailingNewlines(SubSeq(text, 1, Len(text) - 1))

BlankLinesAtEnd(text) == TrailingNewlines(text) - 1

Rel(i) == RelPath(log[i].path, start_path)

\* The header lines found in the bundle.
BundleHeaders == {r.header : r \in ParsedSet(Bundle)}

\* The chunks of the files processed so far make up the whole output, in order.
ChunksTile ==
    /\ \A i \in LogIndex : log[i].from = (IF i = 1 THEN 1 ELSE log[i - 1].to + 1)
    /\ Len(out) = (IF log = <<>> THEN 0 ELSE log[Len(log)].to)

----------------------------------------------------------------------------
\* Properties

\* C1: whenever no file is half processed, every file whose processing has
\* ended either left its complete record in the output (header, all of its
\* content, the two-newline separator) or, if reading it failed, left nothing
\* at all, not even a header line.
C1_NoPartialRecord ==
    BetweenFiles =>
        \A i \in LogIndex :
            IF log[i].ok
            THEN Chunk(i) = Header(Rel(i)) \o log[i].text \o Separator
            ELSE Chunk(i) = <<>>

\* C2: after a completed run on a tree whose files are all text, the bundle
\* reads back as exactly one record per file of the tree, and the set of
\* (relative path, content) pairs read back is that of the tree.
C2_OneRecordPerFile ==
    (Completed /\ \A p \in TreeFiles : fs0[p].kind = "text") =>
        /\ Cardinality(HeaderStarts(Bundle)) = Cardinality(TreeFiles)
        /\ ParsedSet(Bundle) =
              {RecordOf(RelPath(p, start_path), fs0[p].data) : p \in TreeFiles}

\* C3: when the script runs and the source directory does not exist, nothing
\* is traversed or opened, the disk stays as it was (no output file appears, an
\* existing one keeps its content), and what is printed is the error line and
\* never the success line.
C3_MissingSourceIsNoOp ==
    (entry = "main" /\ ~IsDir(source_directory)) =>
        /\ pc \in {"main", "exit"}
        /\ fs = fs0
        /\ outOpen = 0 /\ inOpen = {}
        /\ stack = <<>> /\ log = <<>> /\ out = <<>>
        /\ console = (IF pc = "exit" THEN <<ErrorLine>> ELSE <<>>)

C3_Witness ==
    /\ entry = "main" /\ ~IsDir(source_directory)
    /\ pc = "exit"
    /\ output_file \in DOMAIN fs /\ fs[output_file] = Stale
    /\ console = <<ErrorLine>>

\* C4: bundle_files itself does not run on a start_path that is not a
\* directory: the disk stays as it was, no handle is opened, nothing is
\* traversed, and the call does not return normally.
C4_NoRunWithoutSource ==
    ~IsDir(start_path) =>
        /\ fs = fs0
        /\ outOpen = 0
        /\ stack = <<>>
        /\ pc # "returned"

\* C5: after a completed run every file of the tree was visited, every file
\* that was read has its complete record in the output, and every file whose
\* open or read failed has exactly one skip line and no header in the bundle.
C5_FailuresSkippedCleanly ==
    Completed =>
        /\ TreeFiles \subseteq {log[i].path : i \in LogIndex}
        /\ \A i \in LogIndex :
              IF log[i].ok
              THEN Chunk(i) = Header(Rel(i)) \o log[i].text \o Separator
              ELSE /\ HeaderLine(Rel(i)) \notin BundleHeaders
                   /\ Cardinality({k \in 1..Len(console) :
                                      console[k] = SkipLine(log[i].path)}) = 1

\* C6 as stated: after a completed run, every file that was read reads back
\* from the bundle as its relative path and its exact original content,
\* whatever that content is.
C6_RoundTrip ==
    Completed =>
        \A i \in LogIndex :
            log[i].ok => RecordOf(Rel(i), OriginalContent(i)) \in ParsedSet(Bundle)

\* The content has no carriage return and no line that looks like a header.
PlainText(c) == (\A k \in 1..Len(c) : c[k] # CR) /\ ~HasHeaderLine(c)

\* C6 amended: after a completed run, every file that was read and whose
\* content holds no carriage return and no line beginning with "--- " and
\* ending with " ---" reads back from the bundle as its relative path and its
\* exact content (empty content and content ending in newlines included).
C6_RoundTripPlainText ==
    Completed =>
        \A i \in LogIndex :
            (log[i].ok /\ PlainText(OriginalContent(i))) =>
                RecordOf(Rel(i), OriginalContent(i)) \in ParsedSet(Bundle)

C6_Witness ==
    /\ Completed
    /\ Len(log) = 2
    /\ log[1].opened /\ ~log[1].ok
    /\ log[2].ok /\ OriginalContent(2) = <<"x", LF>>
    /\ RecordOf(Rel(2), <<"x", LF>>) \in ParsedSet(Bundle)

\* C7: when the program has run to its end twice in a row, the second bundle
\* is the first one byte for byte if both runs visited the files in the same
\* order, and holds the same records the same number of times otherwise.
C7_SameOutputTwice ==
    (Finished /\ runs # <<>>) =>
        LET prev == runs[Len(runs)] IN
        IF [i \in LogIndex |-> log[i].path] = [i \in 1..Len(prev.log) |-> prev.log[i].path]
        THEN Bundle = prev.bundle
        ELSE \A r \in ParsedSet(Bundle) \cup ParsedSet(prev.bundle) :
                 Copies(Bundle, r) = Copies(prev.bundle, r)

\* C8 as stated: every record of a file that was read is its header line, the
\* file's raw content, and then exactly one blank line.
C8_OneBlankLine ==
    BetweenFiles =>
        \A i \in LogIndex :
            log[i].ok =>
                /\ Chunk(i) = Header(Rel(i)) \o OriginalContent(i) \o Separator
                /\ BlankLinesAtEnd(Chunk(i)) = 1

\* C8 amended: whenever no file is half processed the output is, file by file
\* in the order processed: for a file that was read, its header line, its
\* content as text mode reads it (carriage returns become newlines) and exactly
\* two newline characters, which show as exactly one blank line only when the
\* content is not empty and does not end in a newline; for a file that opened
\* but could not be read, the header line alone; for a file that could not be
\* opened, nothing.
C8_TwoNewlines ==
    BetweenFiles =>
        /\ ChunksTile
        /\ \A i \in LogIndex :
              IF log[i].ok
              THEN /\ Chunk(i) = Header(Rel(i)) \o Decode(OriginalContent(i)) \o <<LF, LF>>
                   /\ (BlankLinesAtEnd(Chunk(i)) = 1) <=>
                          (log[i].text # <<>> /\ Last(log[i].text) # LF)
              ELSE IF log[i].opened
              THEN Chunk(i) = Header(Rel(i))
              ELSE Chunk(i) = <<>>

C8_Witness ==
    /\ BetweenFiles
    /\ Len(log) = 2
    /\ log[1].ok /\ log[1].text = <<"x", LF>> /\ BlankLinesAtEnd(Chunk(1)) = 2
    /\ log[2].ok /\ log[2].text = <<"x">> /\ BlankLinesAtEnd(Chunk(2)) = 1

\* C9: at most one input handle is open at any time, none is open between
\* files (a file is closed, read or not, before the next is opened), exactly
\* one output handle is open while bundle_files runs, and none is open once it
\* has returned or been left by an exception.
C9_Handles ==
    /\ Cardinality(inOpen) <= 1
    /\ pc = "loop" => inOpen = {}
    /\ pc \in {"header", "read", "sep"} => inOpen = {filepath}
    /\ pc \in {"loop", "header", "read", "sep"} => outOpen = 1
    /\ pc \in {"main", "call", "returned", "exit", "raised"} => (outOpen = 0 /\ inOpen = {})

C9_Witness ==
    /\ pc = "read"
    /\ Len(log) = 1 /\ log[1].opened /\ ~log[1].ok
    /\ inOpen = {filepath} /\ filepath # log[1].path
    /\ outOpen = 1

\* C10: the files bundle_files processes are files that were beneath
\* start_path before the run and never the output file, and after a completed
\* run they are all of those files; no header of the bundle names the output
\* file.
C10_NeverReadsItself ==
    /\ \A i \in LogIndex : log[i].path \in TreeFiles /\ log[i].path # output_file
    /\ Completed => {log[i].path : i \in LogIndex} = TreeFiles
    /\ Completed => HeaderLine(<<Last(output_file)>>) \notin BundleHeaders

====
